---- MODULE Spec2Model ----
(***************************************************************************)
(* The conversation Engine of core/engine.py as a state machine: the turn  *)
(* loop (step / run), proposal collection, speaker selection and the       *)
(* scoring rules (importance, coherence, freshness, non-monotonousness,    *)
(* individual bonus).                                                      *)
(*                                                                         *)
(* Conventions.  History indices are the code's 0-based indices; At(h, j)  *)
(* reads h[j].  None (a pause / no proposal) is the record NoneItem, the   *)
(* player id None is 0.  importance is kept in hundredths (the code rounds *)
(* it to 2 decimals), the other shared components in units, the shared     *)
(* total in hundredths, the individual bonus in units of 1/(2*|subjects|). *)
(***************************************************************************)
EXTENDS Integers, Sequences, FiniteSets, TLC

VARIABLES
    subjects,             \* Engine.subjects: the list 0..n-1
    memory_size,          \* Engine.memory_size
    conversation_length,  \* Engine.conversation_length
    players_count,        \* Engine.players_count
    snapshots,            \* Engine.snapshots: player id -> PlayerSnapshot
    history,              \* Engine.history: sequence of Item | None
    last_player_id,       \* Engine.last_player_id
    turn,                 \* Engine.turn
    consecutive_pauses,   \* Engine.consecutive_pauses
    player_contributions, \* Engine.player_contributions: id -> list of Item
    pc,                   \* "idle", or "run" while run() is inside its loop
    turn_impact,          \* run()'s local list of turn results
    last_op,              \* the operation that returned last
    returned,             \* what each agent's propose_item returned in the last turn
    result,               \* the turn result of the last __turn (NoResult: step() returned None)
    output,               \* the value the last run() / final_scores() returned
    twin,                 \* a second Engine constructed with the same arguments (NoTwin: none)
    search                \* the beam-search agent of player 1: its tree, beam and context stack

config == <<subjects, memory_size, conversation_length, players_count, snapshots>>
engine == <<history, last_player_id, turn, consecutive_pauses, player_contributions>>
vars == <<config, engine, pc, turn_impact, last_op, returned, result, output, twin, search>>

----------------------------------------------------------------------------
(* Bounds of the explored Engine constructions *)

MaxConversationLength == 5
ThreeConversationLength == 4
DrawConversationLength == 4
WindowConversationLength == 6
LongConversationLength == 8
StreakConversationLength == 5
PauseConversationLength == 5
TwinConversationLength == 3
NumSeeds == 2
NumUuidDraws == 2
SearchConversationLength == 3
SearchDepth == 2
SearchWidth == 2
NumSubjects == 3

----------------------------------------------------------------------------
(* models/item.py, models/player.py *)

NoneId == 0

NoneItem == [id |-> 0, player_id |-> 0, importance |-> 0, subjects |-> <<>>]

Item(id, player_id, importance, subj) ==
    [id |-> id, player_id |-> player_id, importance |-> importance, subjects |-> subj]

PlayerSnapshot(id, preferences, memory_bank) ==
    [id |-> id, preferences |-> preferences, memory_bank |-> memory_bank]

InTuple(x, t) == \E k \in 1..Len(t) : t[k] = x

\* the membership test is dropped: any item is accepted
ItemInAnyMemoryBank(snapshot, item) == item.id # NoneId

ItemInMemoryBank(snapshot, item) == InTuple(item, snapshot.memory_bank)

At(h, j) == h[j + 1]

Max(a, b) == IF a >= b THEN a ELSE b

Min(a, b) == IF a <= b THEN a ELSE b

\* the element of a one-element set: binds a value so that it is computed once
TheValue(S) == CHOOSE v \in S : TRUE

RECURSIVE SumSeq(_)
SumSeq(s) == IF s = <<>> THEN 0 ELSE Head(s) + SumSeq(Tail(s))

----------------------------------------------------------------------------
(* core/engine.py: scoring rules *)

Range(t) == {t[k] : k \in 1..Len(t)}

\* tuple.index(x): 0-based position of the first occurrence
Index(t, x) == (CHOOSE k \in 1..Len(t) : t[k] = x /\ \A m \in 1..(k - 1) : t[m] # x) - 1

\* history[lo:hi] restricted to its non-None entries, as the set of their subjects
SliceSubjects(h, lo, hi) ==
    UNION {Range(At(h, j).subjects) : j \in {n \in lo..(hi - 1) : At(h, n) # NoneItem}}

\* the slice starts one entry earlier: history[max(0, i - 7) : i - 1]
CalculateFreshnessScoreSixSlots(h, i, current_item) ==
    IF i = 0 \/ At(h, i - 1) # NoneItem
    THEN 0
    ELSE LET prior_subjects == SliceSubjects(h, Max(0, i - 7), i - 1)
             novel_subjects == {k \in 1..Len(current_item.subjects) :
                                   current_item.subjects[k] \notin prior_subjects}
         IN  Cardinality(novel_subjects)

CalculateFreshnessScore(h, i, current_item) ==
    IF i = 0 \/ At(h, i - 1) # NoneItem
    THEN 0
    ELSE LET prior_subjects == SliceSubjects(h, Max(0, i - 6), i - 1)
             novel_subjects == {k \in 1..Len(current_item.subjects) :
                                   current_item.subjects[k] \notin prior_subjects}
         IN  Cardinality(novel_subjects)

\* the loop passes over a None instead of stopping at it
RECURSIVE PastContextSkippingPauses(_, _, _)
PastContextSkippingPauses(h, j, stop) ==
    IF j <= stop THEN <<>>
    ELSE IF At(h, j) = NoneItem THEN PastContextSkippingPauses(h, j - 1, stop)
    ELSE <<At(h, j)>> \o PastContextSkippingPauses(h, j - 1, stop)

\* for j in range(start, stop, -1): break at the first None
RECURSIVE PastContext(_, _, _)
PastContext(h, j, stop) ==
    IF j <= stop THEN <<>>
    ELSE IF At(h, j) = NoneItem THEN <<>>
    ELSE <<At(h, j)>> \o PastContext(h, j - 1, stop)

\* for j in range(start, stop): break at the first None
RECURSIVE FutureContext(_, _, _)
FutureContext(h, j, stop) ==
    IF j >= stop THEN <<>>
    ELSE IF At(h, j) = NoneItem THEN <<>>
    ELSE <<At(h, j)>> \o FutureContext(h, j + 1, stop)

\* Counter(s for item in context_items for s in item.subjects)[s]
ContextSubjectCount(context_items, s) ==
    Cardinality({nk \in (1..Len(context_items)) \X (1..2) :
                    /\ nk[2] <= Len(context_items[nk[1]].subjects)
                    /\ context_items[nk[1]].subjects[nk[2]] = s})

CoherenceOfContext(context_items, current_item) ==
    LET subj == Range(current_item.subjects)
        missing == ~ (\A s \in subj : ContextSubjectCount(context_items, s) > 0)
        doubled == \A s \in subj : ContextSubjectCount(context_items, s) >= 2
    IN  (IF missing THEN -1 ELSE 0) + (IF doubled THEN 1 ELSE 0)

\* the backward loop runs one entry further: range(i - 1, max(-1, i - 5), -1)
CalculateCoherenceScoreWidePast(h, i, current_item) ==
    LET context_items == PastContext(h, i - 1, Max(-1, i - 5))
                         \o FutureContext(h, i + 1, Min(Len(h), i + 4))
    IN  CoherenceOfContext(context_items, current_item)

CalculateCoherenceScore(h, i, current_item) ==
    LET context_items == PastContext(h, i - 1, Max(-1, i - 4))
                         \o FutureContext(h, i + 1, Min(Len(h), i + 4))
    IN  CoherenceOfContext(context_items, current_item)

\* the penalty given as soon as one of the three previous entries shares a subject
CalculateNonmonotonousnessScoreAnyOfThree(h, i, current_item, repeated) ==
    IF repeated THEN -1
    ELSE IF i < 3 THEN 0
    ELSE IF \E j \in (i - 3)..(i - 1) :
                /\ At(h, j) # NoneItem
                /\ \E s \in Range(current_item.subjects) : InTuple(s, At(h, j).subjects)
         THEN -1
         ELSE 0

CalculateNonmonotonousnessScore(h, i, current_item, repeated) ==
    IF repeated THEN -1
    ELSE IF i < 3 THEN 0
    ELSE IF \A j \in (i - 3)..(i - 1) :
                /\ At(h, j) # NoneItem
                /\ \E s \in Range(current_item.subjects) : InTuple(s, At(h, j).subjects)
         THEN -1
         ELSE 0

\* sum(bonuses) / len(bonuses), in units of 1 / (2 * len(preferences))
PreferenceBonus(preferences, item) ==
    LET ks == {k \in 1..Len(item.subjects) : InTuple(item.subjects[k], preferences)}
        bonus(k) == Len(preferences) - Index(preferences, item.subjects[k])
        total == SumSeq([k \in 1..Len(item.subjects) |-> IF k \in ks THEN bonus(k) ELSE 0])
    IN  IF ks = {} THEN 0 ELSE (2 * total) \div Cardinality(ks)

RECURSIVE IndividualLoop(_, _, _)
IndividualLoop(preferences, h, i) ==
    IF i >= Len(h) THEN 0
    ELSE (IF At(h, i) = NoneItem THEN 0 ELSE PreferenceBonus(preferences, At(h, i)))
         + IndividualLoop(preferences, h, i + 1)

CalculateIndividualScore(snaps, h) ==
    [id \in DOMAIN snaps |-> IndividualLoop(snaps[id].preferences, h, 0)]

ZeroScores == [importance |-> 0, coherence |-> 0, freshness |-> 0, nonmonotonousness |-> 0]

\* the state of the loop of __calculate_scores after its first n iterations
RECURSIVE ScoreLoop(_, _, _, _, _)
ScoreLoop(h, i, n, unique_items, acc) ==
    IF i >= n THEN [unique_items |-> unique_items, acc |-> acc]
    ELSE LET current_item == At(h, i) IN
         IF current_item = NoneItem
         THEN ScoreLoop(h, i + 1, n, unique_items, acc)
         ELSE IF current_item.id \in unique_items
         THEN ScoreLoop(h, i + 1, n, unique_items,
                  [acc EXCEPT !.nonmonotonousness =
                       @ + CalculateNonmonotonousnessScore(h, i, current_item, TRUE)])
         ELSE ScoreLoop(h, i + 1, n, unique_items \cup {current_item.id},
                  [importance |-> acc.importance + current_item.importance,
                   coherence |-> acc.coherence + CalculateCoherenceScore(h, i, current_item),
                   freshness |-> acc.freshness + CalculateFreshnessScore(h, i, current_item),
                   nonmonotonousness |-> acc.nonmonotonousness
                       + CalculateNonmonotonousnessScore(h, i, current_item, FALSE)])

CalculateScores(snaps, h) ==
    LET s == ScoreLoop(h, 0, Len(h), {}, ZeroScores).acc
    IN  [shared |-> s.importance
                    + 100 * (s.coherence + s.freshness + s.nonmonotonousness),
         individual |-> CalculateIndividualScore(snaps, h),
         coherence |-> s.coherence,
         freshness |-> s.freshness,
         importance |-> s.importance,
         nonmonotonousness |-> s.nonmonotonousness]

\* total = (shared + individual) / conversation_length as the fraction num / den
FinalScores(snaps, h, conv_len, nsubj) ==
    LET scores == CalculateScores(snaps, h)
        pauses == Cardinality({j \in 0..(Len(h) - 1) : At(h, j) = NoneItem})
    IN  [conversation_length |-> Len(h),
         pauses |-> pauses,
         player_scores |->
             [uid \in DOMAIN snaps |->
                 [total |-> IF conv_len > 0
                            THEN [num |-> 2 * nsubj * scores.shared
                                          + 100 * scores.individual[uid],
                                  den |-> 200 * nsubj * conv_len]
                            ELSE [num |-> 0, den |-> 1],
                  shared |-> scores.shared,
                  individual |-> scores.individual[uid]]],
         shared_score_breakdown |->
             [total |-> scores.shared,
              importance |-> scores.importance,
              coherence |-> scores.coherence,
              freshness |-> scores.freshness,
              nonmonotonousness |-> scores.nonmonotonousness]]

PauseImpact == [total |-> 0]

\* the slice is one entry short: history[:-2]
IsRepeatedMissesPrevious(h, item) ==
    \E j \in 0..(Len(h) - 3) : At(h, j) # NoneItem /\ At(h, j).id = item.id

\* any(existing_item and existing_item.id == item.id for existing_item in history[:-1])
IsRepeated(h, item) ==
    \E j \in 0..(Len(h) - 2) : At(h, j) # NoneItem /\ At(h, j).id = item.id

\* h is the history after the append, speaker_id is last_player_id
CalculateTurnScoreImpact(snaps, h, speaker_id, item) ==
    IF item = NoneItem THEN PauseImpact
    ELSE LET turn_idx == Len(h) - 1
             is_repeated == IsRepeated(h, item)
             importance == IF is_repeated THEN 0 ELSE item.importance
             coherence == IF is_repeated THEN 0
                          ELSE CalculateCoherenceScore(h, turn_idx, item)
             freshness == IF is_repeated THEN 0
                          ELSE CalculateFreshnessScore(h, turn_idx, item)
             nonmonotonousness ==
                 CalculateNonmonotonousnessScore(h, turn_idx, item, is_repeated)
             individual == IF speaker_id \in DOMAIN snaps
                           THEN PreferenceBonus(snaps[speaker_id].preferences, item)
                           ELSE 0
         IN  [importance |-> importance,
              coherence |-> coherence,
              freshness |-> freshness,
              nonmonotonousness |-> nonmonotonousness,
              individual |-> individual,
              total |-> importance + 100 * (coherence + freshness + nonmonotonousness)]

----------------------------------------------------------------------------
(* players/player_3/utils.py: ConversationScorer *)

\* any(existing_item and existing_item.id == item.id for existing_item in history)
ScorerIsRepeated(item, h) ==
    \E j \in 0..(Len(h) - 1) : At(h, j) # NoneItem /\ At(h, j).id = item.id

ScorerFreshnessScore(item, position, h) ==
    IF position = 0 \/ At(h, position - 1) # NoneItem THEN 0
    ELSE LET prior_subjects == SliceSubjects(h, Max(0, position - 6), position - 1)
         IN  Cardinality({k \in 1..Len(item.subjects) : item.subjects[k] \notin prior_subjects})

\* the context also takes the entries after the position, as the Engine's final
\* score does: for j in range(position + 1, min(len(history), position + 4))
ScorerCoherenceScoreWithFuture(item, position, h) ==
    CoherenceOfContext(PastContext(h, position - 1, Max(-1, position - 4))
                       \o FutureContext(h, position + 1, Min(Len(h), position + 4)),
                       item)

\* the past half of the Engine's window only
ScorerCoherenceScore(item, position, h) ==
    CoherenceOfContext(PastContext(h, position - 1, Max(-1, position - 4)), item)

ScorerNonmonotonousnessScore(item, position, h, repeated) ==
    IF repeated THEN -1
    ELSE IF position < 3 THEN 0
    ELSE IF \A j \in (position - 3)..(position - 1) :
                /\ At(h, j) # NoneItem
                /\ \E s \in Range(item.subjects) : InTuple(s, At(h, j).subjects)
         THEN -1
         ELSE 0

\* the coherence scores of the items at lo..position-1 of the history hh, in order
RECURSIVE ScorerCoherenceScores(_, _, _)
ScorerCoherenceScores(hh, lo, position) ==
    IF lo >= position THEN <<>>
    ELSE (IF At(hh, lo) = NoneItem THEN <<>>
          ELSE <<ScorerCoherenceScore(At(hh, lo), lo, hh)>>)
         \o ScorerCoherenceScores(hh, lo + 1, position)

\* history.append(item) ... history.pop(): the list is back to h when this returns
ScorerOthersCoherenceScoreUpdate(item, position, h) ==
    TheValue({SumSeq([k \in 1..Min(Len(new_scores), Len(original_scores)) |->
                         new_scores[k] - original_scores[k]]) :
                 original_scores \in {ScorerCoherenceScores(h, Max(0, position - 3), position)},
                 new_scores \in {ScorerCoherenceScores(Append(h, item),
                                                       Max(0, position - 3), position)}})

ScorerIndividualScore(preferences, item) == PreferenceBonus(preferences, item)

\* importance, coherence, freshness, nonmonotonousness; importance in hundredths
ScorerSharedComponents(item, h) ==
    LET position == Len(h)
        is_repeated == ScorerIsRepeated(item, h)
    IN  [importance |-> IF is_repeated THEN 0 ELSE item.importance,
         coherence |-> IF is_repeated THEN 0
                       ELSE ScorerCoherenceScore(item, position, h)
                            + ScorerOthersCoherenceScoreUpdate(item, position, h),
         freshness |-> IF is_repeated THEN 0 ELSE ScorerFreshnessScore(item, position, h),
         nonmonotonousness |->
             ScorerNonmonotonousnessScore(item, position, h, is_repeated)]

\* shared_total, in hundredths
ScorerSharedScore(item, h) ==
    TheValue({c.importance + 100 * (c.coherence + c.freshness + c.nonmonotonousness) :
                 c \in {ScorerSharedComponents(item, h)}})

\* competition_rate * individual + (1 - competition_rate) * shared for the rate
\* 0.5 of the presets, in units of 1 / (400 * len(preferences))
ScorerEvaluate(preferences, item, h) ==
    100 * ScorerIndividualScore(preferences, item)
        + 2 * Len(preferences) * ScorerSharedScore(item, h)

----------------------------------------------------------------------------
(* core/utils.py: ConversationScorer *)

CoreScorerNonmonotonousnessScore(item, position, h, repeated) ==
    IF repeated THEN -1
    ELSE IF position < 3 THEN 0
    ELSE IF \A j \in (position - 3)..(position - 1) :
                /\ At(h, j) # NoneItem
                /\ \E s \in Range(At(h, j).subjects) : InTuple(s, At(h, j).subjects)
         THEN -1
         ELSE 0

CoreScorerSharedComponents(item, h) ==
    LET position == Len(h)
        is_repeated == ScorerIsRepeated(item, h)
    IN  [importance |-> IF is_repeated THEN 0 ELSE item.importance,
         coherence |-> IF is_repeated THEN 0 ELSE ScorerCoherenceScore(item, position, h),
         freshness |-> IF is_repeated THEN 0 ELSE ScorerFreshnessScore(item, position, h),
         nonmonotonousness |->
             CoreScorerNonmonotonousnessScore(item, position, h, is_repeated)]

CoreScorerSharedScore(item, h) ==
    LET c == CoreScorerSharedComponents(item, h)
    IN  c.importance + 100 * (c.coherence + c.freshness + c.nonmonotonousness)

----------------------------------------------------------------------------
(* core/engine.py: construction *)

\* random.sample(self.subjects, samples) with samples in {1, 2}
SubjectTuples(n) ==
    {<<a>> : a \in 0..(n - 1)}
    \cup {t \in (0..(n - 1)) \X (0..(n - 1)) : t[1] # t[2]}

\* round(random.random(), 2) in hundredths: the value drawn for the item with this id
DrawnImportance(id) == (37 * id + 5) % 101

\* random.sample(self.subjects, len(self.subjects)): the permutation drawn for this player
GeneratePreference(subj, uid) ==
    [k \in 1..Len(subj) |-> subj[((k + uid - 1) % Len(subj)) + 1]]

\* item_subjects: item id -> the subjects tuple drawn for it
GenerateItems(player_id, ms, item_subjects) ==
    [k \in 1..ms |->
        LET id == (player_id - 1) * ms + k
        IN  Item(id, player_id, DrawnImportance(id), item_subjects[id])]

InitializeSnapshots(player_count, subj, ms, item_subjects) ==
    [id \in 1..player_count |->
        PlayerSnapshot(id, GeneratePreference(subj, id), GenerateItems(id, ms, item_subjects))]

EngineInit(player_count, nsubjects, ms, conv_len, item_subjects) ==
    /\ subjects = [k \in 1..nsubjects |-> k - 1]
    /\ memory_size = ms
    /\ conversation_length = conv_len
    /\ players_count = player_count
    /\ history = <<>>
    /\ last_player_id = NoneId
    /\ turn = 0
    /\ consecutive_pauses = 0
    /\ player_contributions = [id \in 1..player_count |-> <<>>]
    /\ snapshots = InitializeSnapshots(player_count, [k \in 1..nsubjects |-> k - 1],
                                       ms, item_subjects)

NoResult == [turn |-> 0]

NoOutput == [conversation_length |-> -1]

NoTwin == [turn |-> -1]

NoSearch == [phase |-> "none"]

HarnessInit ==
    /\ twin = NoTwin
    /\ search = NoSearch
    /\ pc = "idle"
    /\ turn_impact = <<>>
    /\ last_op = "init"
    /\ returned = <<>>
    /\ result = NoResult
    /\ output = NoOutput

\* two players with one item each, every conversation length up to the bound
TwoInit ==
    \E conv_len \in 1..MaxConversationLength :
        EngineInit(2, NumSubjects, 1, conv_len, <<<<0>>, <<0, 1>>>>)

\* three players with one item each
ThreeInit ==
    EngineInit(3, NumSubjects, 1, ThreeConversationLength, <<<<0>>, <<0, 1>>, <<1>>>>)

\* one player with two items, every draw of the items' subjects
DrawInit ==
    \E item_subjects \in [1..2 -> SubjectTuples(NumSubjects)] :
        EngineInit(1, NumSubjects, 2, DrawConversationLength, item_subjects)

\* one player with three items
WindowInit ==
    EngineInit(1, NumSubjects, 3, WindowConversationLength, <<<<0>>, <<1>>, <<0, 1>>>>)

\* one player with three items, a long conversation
LongInit ==
    EngineInit(1, NumSubjects, 3, LongConversationLength, <<<<0>>, <<1>>, <<0, 1>>>>)

\* one player with five items, four of them on subject 3 alone
StreakInit ==
    EngineInit(1, NumSubjects + 1, 5, StreakConversationLength,
               <<<<3>>, <<3>>, <<3>>, <<3>>, <<0>>>>)

\* one player with three items, a short conversation
PauseInit ==
    EngineInit(1, NumSubjects, 3, PauseConversationLength, <<<<0>>, <<1>>, <<0, 1>>>>)

Init == HarnessInit /\ TwoInit

InitThree == HarnessInit /\ ThreeInit

InitDraw == HarnessInit /\ DrawInit

InitWindow == HarnessInit /\ WindowInit

InitLong == HarnessInit /\ LongInit

InitStreak == HarnessInit /\ StreakInit

InitPause == HarnessInit /\ PauseInit

----------------------------------------------------------------------------
(* core/engine.py: the turn *)

Players == DOMAIN snapshots

\* everything an agent can hand back: None, or an item of some memory bank
\* (its own or, against the contract, another player's)
Proposable == {NoneItem} \cup UNION {Range(snapshots[p].memory_bank) : p \in Players}

\* a proposal whose id already occurs in the history is filtered out as well
GetProposalsUnconsumed(snaps, rets) ==
    LET accepted == {p \in DOMAIN snaps :
                        /\ rets[p] # NoneItem
                        /\ ItemInMemoryBank(snaps[p], rets[p])
                        /\ \A j \in 1..Len(history) : history[j].id # rets[p].id}
    IN  [p \in accepted |-> rets[p]]

GetProposals(snaps, rets) ==
    LET accepted == {p \in DOMAIN snaps :
                        rets[p] # NoneItem /\ ItemInMemoryBank(snaps[p], rets[p])}
    IN  [p \in accepted |-> rets[p]]

MinOf(S) == CHOOSE m \in S : \A x \in S : m <= x

\* the fairness filter is dropped: every proposer is eligible
EligibleSpeakersAnyProposer(proposed_players, contributions) == DOMAIN proposed_players

EligibleSpeakers(proposed_players, contributions) ==
    LET min_contributions ==
            MinOf({Len(contributions[uid]) : uid \in DOMAIN proposed_players})
    IN  {uid \in DOMAIN proposed_players : Len(contributions[uid]) = min_contributions}

\* coin: random.random() < 0.5; pick: the value of random.choice(eligible_speakers)
SelectSpeaker(proposals, last, contributions, coin, pick) ==
    LET keep == {uid \in DOMAIN proposals : proposals[uid] # NoneItem}
        proposed_players == [uid \in keep |-> proposals[uid]]
    IN  IF keep = {} THEN <<NoneId, NoneItem>>
        ELSE IF last # NoneId /\ last \in keep /\ coin
        THEN <<last, proposed_players[last]>>
        ELSE <<pick, proposed_players[pick]>>

\* the values random.choice can return in this call (None: it is not called)
Picks(proposals, contributions) ==
    IF DOMAIN proposals = {} THEN {NoneId}
    ELSE EligibleSpeakers(proposals, contributions)

\* the streak test fires one pause late
IsOverFourPauses(t, conv_len, pauses) == t >= conv_len \/ pauses >= 4

\* the length test is strict
IsOverPastLength(t, conv_len, pauses) == t > conv_len \/ pauses >= 3

IsOver(t, conv_len, pauses) == t >= conv_len \/ pauses >= 3

\* the two branches of __turn: a speaker resets the streak, a pause extends it
\* the speaking branch forgets to reset the streak
PausesAfterNoReset(speaker, pauses) == IF speaker # NoneId THEN pauses ELSE pauses + 1

PausesAfter(speaker, pauses) == IF speaker # NoneId THEN 0 ELSE pauses + 1

Turn(rets, coin, pick) ==
    LET proposals == GetProposals(snapshots, rets)
        sel == SelectSpeaker(proposals, last_player_id, player_contributions, coin, pick)
        speaker == sel[1]
        item == sel[2]
    IN  /\ pick \in Picks(proposals, player_contributions)
        /\ history' = Append(history, item)
        /\ last_player_id' = speaker
        /\ consecutive_pauses' = PausesAfter(speaker, consecutive_pauses)
        /\ player_contributions' =
               IF speaker # NoneId
               THEN [player_contributions EXCEPT ![speaker] = Append(@, item)]
               ELSE player_contributions
        /\ turn' = turn + 1
        /\ returned' = rets
        /\ result' = [turn |-> turn',
                      speaker_id |-> speaker,
                      item |-> item,
                      proposals |-> proposals,
                      is_over |-> IsOver(turn', conversation_length, consecutive_pauses'),
                      score_impact |-> CalculateTurnScoreImpact(snapshots, history',
                                                                last_player_id', item)]

SomeTurn ==
    \E rets \in [Players -> Proposable] :
        \E coin \in BOOLEAN, pick \in Picks(GetProposals(snapshots, rets), player_contributions) :
            Turn(rets, coin, pick)

Step ==
    /\ pc = "idle"
    /\ last_op' = "step"
    /\ IF IsOver(turn, conversation_length, consecutive_pauses)
       THEN /\ result' = NoResult
            /\ returned' = <<>>
            /\ UNCHANGED engine
       ELSE SomeTurn
    /\ output' = NoOutput
    /\ UNCHANGED <<config, pc, turn_impact, twin, search>>

\* what the model keeps of a turn result in run()'s turn_impact list
Recorded(r) == [turn |-> r.turn, speaker_id |-> r.speaker_id, item |-> r.item,
                is_over |-> r.is_over, score_impact |-> r.score_impact]

RunOutput(h, impacts) ==
    LET score_data == FinalScores(snapshots, h, conversation_length, Len(subjects))
    IN  [history |-> h,
         turn_impact |-> impacts,
         score_breakdown |-> score_data.shared_score_breakdown,
         scores |-> score_data]

RunCall ==
    /\ pc = "idle"
    /\ pc' = "run"
    /\ turn_impact' = <<>>
    /\ UNCHANGED <<config, engine, last_op, returned, result, output, twin, search>>

\* one iteration of the while loop; the break leaves the loop and run() returns
RunTurn ==
    /\ pc = "run"
    /\ turn < conversation_length
    /\ SomeTurn
    /\ turn_impact' = Append(turn_impact, Recorded(result'))
    /\ IF consecutive_pauses' >= 3
       THEN /\ pc' = "idle"
            /\ last_op' = "run"
            /\ output' = RunOutput(history', turn_impact')
       ELSE UNCHANGED <<pc, last_op, output>>
    /\ UNCHANGED <<config, twin, search>>

\* the loop condition fails and run() returns
RunReturn ==
    /\ pc = "run"
    /\ ~ (turn < conversation_length)
    /\ pc' = "idle"
    /\ last_op' = "run"
    /\ output' = RunOutput(history, turn_impact)
    /\ UNCHANGED <<config, engine, turn_impact, returned, result, twin, search>>

FinalScoresCall ==
    /\ pc = "idle"
    /\ last_op' = "final_scores"
    /\ output' = FinalScores(snapshots, history, conversation_length, Len(subjects))
    /\ UNCHANGED <<config, engine, pc, turn_impact, returned, result, twin, search>>

Next == Step \/ RunCall \/ RunTurn \/ RunReturn \/ FinalScoresCall

Spec == Init /\ [][Next]_vars

\* run() is only ever called on a freshly constructed Engine
RunCallFresh == turn = 0 /\ history = <<>> /\ RunCall

NextFreshRun == Step \/ RunCallFresh \/ RunTurn \/ RunReturn \/ FinalScoresCall

SpecFreshRun == Init /\ [][NextFreshRun]_vars

\* the Engine driven turn by turn, as ui/game.py drives it: step() and final_scores()
NextStep == Step \/ FinalScoresCall

SpecDraw == InitDraw /\ [][NextStep]_vars

SpecWindow == InitWindow /\ [][NextStep]_vars

\* the Engine driven by step() alone
SpecThree == InitThree /\ [][Step]_vars

SpecLong == InitLong /\ [][Step]_vars

SpecStreak == InitStreak /\ [][Step]_vars

SpecPause == InitPause /\ [][Step]_vars

----------------------------------------------------------------------------
(* core/engine.py: two Engines constructed with the same seed *)

\* random.seed(seed): the subjects that random.sample then draws for the items
SeededSubjects(seed) ==
    [k \in 1..2 |-> IF (seed + k) % 2 = 0
                    THEN <<(seed + k) % NumSubjects>>
                    ELSE <<(seed + k) % NumSubjects, (seed + k + 1) % NumSubjects>>]

\* uuid.uuid4() reads the operating system's entropy, not the seeded generator:
\* draw is the outcome of the item's uuid4() call, draw 0 the one EngineInit has
Uuid4(id, draw) == id + 2 * draw

\* the item a second construction holds at the memory bank position of item
TwinItem(item, draw) ==
    IF item = NoneItem THEN NoneItem ELSE [item EXCEPT !.id = Uuid4(@, draw)]

TwinSnapshots(snaps, draw) ==
    [p \in DOMAIN snaps |->
        PlayerSnapshot(snaps[p].id, snaps[p].preferences,
                       [k \in 1..Len(snaps[p].memory_bank) |->
                           TwinItem(snaps[p].memory_bank[k], draw)])]

TwinInit ==
    \E seed \in 1..NumSeeds, draw \in 0..(NumUuidDraws - 1) :
        /\ EngineInit(2, NumSubjects, 1, TwinConversationLength, SeededSubjects(seed))
        /\ twin = [seed |-> seed,
                   draw |-> draw,
                   snapshots |-> TwinSnapshots(
                                     InitializeSnapshots(2, [k \in 1..NumSubjects |-> k - 1],
                                                         1, SeededSubjects(seed)), draw),
                   history |-> <<>>,
                   last_player_id |-> NoneId,
                   turn |-> 0,
                   consecutive_pauses |-> 0,
                   player_contributions |-> [id \in 1..2 |-> <<>>]]

InitTwin ==
    /\ TwinInit
    /\ search = NoSearch
    /\ pc = "idle"
    /\ turn_impact = <<>>
    /\ last_op = "init"
    /\ returned = <<>>
    /\ result = NoResult
    /\ output = NoOutput

\* __turn of the second Engine
TwinTurn(t, rets, coin, pick) ==
    LET proposals == GetProposals(t.snapshots, rets)
        sel == SelectSpeaker(proposals, t.last_player_id, t.player_contributions, coin, pick)
        speaker == sel[1]
        item == sel[2]
    IN  [t EXCEPT !.history = Append(@, item),
                  !.last_player_id = speaker,
                  !.consecutive_pauses = PausesAfter(speaker, @),
                  !.player_contributions =
                      IF speaker # NoneId THEN [@ EXCEPT ![speaker] = Append(@, item)] ELSE @,
                  !.turn = @ + 1]

\* step() on both Engines. The same seed gives both the same random.random() and
\* random.choice() outcomes, and the same player classes make the same choice by
\* memory bank position.
TwinStep ==
    /\ pc = "idle"
    /\ ~ IsOver(turn, conversation_length, consecutive_pauses)
    /\ ~ IsOver(twin.turn, conversation_length, twin.consecutive_pauses)
    /\ \E rets \in [Players -> Proposable] :
           \E coin \in BOOLEAN,
              pick \in Picks(GetProposals(snapshots, rets), player_contributions) :
               /\ Turn(rets, coin, pick)
               /\ twin' = TwinTurn(twin, [p \in Players |-> TwinItem(rets[p], twin.draw)],
                                   coin, pick)
    /\ last_op' = "step"
    /\ output' = NoOutput
    /\ UNCHANGED <<config, pc, turn_impact, search>>

SpecTwin == InitTwin /\ [][TwinStep]_vars

----------------------------------------------------------------------------
(* players/player_3/bst_player_presets.py: BayesianTree *)

\* node ids are positions in the sequence of created nodes; 0 is None
NoNode == 0

BayesianTreeNode(prior_probability, memory, score, father) ==
    [prior_probability |-> prior_probability, memory |-> memory, score |-> score,
     father |-> father, childs |-> <<>>]

IsLeaf(nodes, n) == nodes[n].childs = <<>>

\* root_probability = 2 and decay_rate = 0.5, in units of 2^-SearchDepth
RootProbability == 2 * (2 ^ SearchDepth)

\* the child gets the father's probability undecayed
GetChildProbabilityNoDecay(nodes, father) == nodes[father].prior_probability

GetChildProbability(nodes, father) == nodes[father].prior_probability \div 2

\* add_node: the new node is the last of the sequence
AddNode(nodes, father, memory, score) ==
    IF nodes = <<>>
    THEN <<BayesianTreeNode(RootProbability, memory, score, NoNode)>>
    ELSE LET node == BayesianTreeNode(GetChildProbability(nodes, father), memory, score, father)
         IN  Append([nodes EXCEPT ![father].childs = Append(@, Len(nodes) + 1)], node)

\* the list without its first occurrence of x
ListRemove(l, x) ==
    LET k == CHOOSE m \in 1..Len(l) : l[m] = x /\ \A q \in 1..(m - 1) : l[q] # x
    IN  SubSeq(l, 1, k - 1) \o SubSeq(l, k + 1, Len(l))

RemoveNode(nodes, node) ==
    IF node = NoNode \/ nodes[node].father = NoNode THEN nodes
    ELSE LET father == nodes[node].father
             detached == IF InTuple(node, nodes[father].childs)
                         THEN [nodes EXCEPT ![father].childs = ListRemove(@, node)]
                         ELSE nodes
         IN  [detached EXCEPT ![node].father = NoNode]

RECURSIVE LeafBranchBackwardPrunning(_, _)
LeafBranchBackwardPrunning(nodes, node) ==
    IF node = NoNode \/ ~ IsLeaf(nodes, node) THEN nodes
    ELSE LET father == nodes[node].father
             removed == RemoveNode(nodes, node)
         IN  IF father = NoNode THEN removed
             ELSE LeafBranchBackwardPrunning(removed, father)

----------------------------------------------------------------------------
(* players/player_3/bst_player_presets.py: BayesianTreeBeamSearch *)

\* the nodes from below tail_node down to end_node
RECURSIVE TreeBranchToList(_, _, _)
TreeBranchToList(nodes, end_node, tail_node) ==
    IF end_node = NoNode \/ end_node = tail_node THEN <<>>
    ELSE Append(TreeBranchToList(nodes, nodes[end_node].father, tail_node), end_node)

\* weighted_sum / prob_sum as the fraction num / den, 0.0 as 0 / 1. The root's
\* score None is never read: its memory is None.
ComputeNormalizedExpectation(nodes, end_node, tail_node) ==
    LET path_nodes == TreeBranchToList(nodes, end_node, tail_node)
        scored(k) == nodes[path_nodes[k]].memory # NoneItem
        weighted_sum == SumSeq([k \in 1..Len(path_nodes) |->
                                   IF scored(k)
                                   THEN nodes[path_nodes[k]].prior_probability
                                            * nodes[path_nodes[k]].score
                                   ELSE 0])
        prob_sum == SumSeq([k \in 1..Len(path_nodes) |->
                               IF scored(k) THEN nodes[path_nodes[k]].prior_probability ELSE 0])
    IN  IF prob_sum = 0 THEN [num |-> 0, den |-> 1]
        ELSE [num |-> weighted_sum, den |-> prob_sum]

\* a > b for fractions with positive denominators
Greater(a, b) == a.num * b.den > b.num * a.den

\* heapq.nlargest(width, heap) over (score, id(node), node): the width nodes of
\* highest expectation, best first; id(node) is a memory address, so the order
\* among nodes of equal expectation is any order
FindTopNodes(nodes, candidates, start_node, width) ==
    LET m == Min(width, Len(candidates))
        C == Range(candidates)
    IN  UNION {{top \in [1..m -> C] :
                   /\ \A a, b \in 1..m : a < b =>
                          /\ top[a] # top[b]
                          /\ ~ Greater(score[top[b]], score[top[a]])
                   /\ \A n \in C \ Range(top) :
                          \A a \in 1..m : ~ Greater(score[n], score[top[a]])} :
               score \in {[n \in C |->
                              ComputeNormalizedExpectation(nodes, n, start_node)]}}

\* the pruning loop: every unselected item candidate, in the order of creation
RECURSIVE PruneCandidates(_, _, _, _)
PruneCandidates(nodes, candidates, k, leaves) ==
    IF k > Len(candidates) THEN nodes
    ELSE LET node == candidates[k]
             pruned == IF ~ InTuple(node, leaves) /\ nodes[node].memory # NoneItem
                       THEN LeafBranchBackwardPrunning(nodes, node)
                       ELSE nodes
         IN  TheValue({PruneCandidates(rest, candidates, k + 1, leaves) : rest \in {pruned}})

\* the loop over node.childs from the k-th child on, with the best so far
RECURSIVE BackwardGetBestCandidate(_, _, _)
RECURSIVE BackwardChildLoop(_, _, _, _, _)
BackwardChildLoop(nodes, node, root_for_score, k, best) ==
    IF k > Len(nodes[node].childs) THEN best
    ELSE LET child == nodes[node].childs[k]
         IN  TheValue({BackwardChildLoop(nodes, node, root_for_score, k + 1, next) :
                          next \in {IF Greater(candidate_score, best.score)
                                    THEN [node |-> child, score |-> candidate_score]
                                    ELSE best :
                                        candidate_score \in
                                            {BackwardGetBestCandidate(nodes, child,
                                                                      root_for_score).score}}})

BackwardGetBestCandidate(nodes, node, root_for_score) ==
    LET own == ComputeNormalizedExpectation(nodes, node, root_for_score)
    IN  IF IsLeaf(nodes, node) THEN [node |-> NoNode, score |-> own]
        ELSE TheValue({BackwardChildLoop(nodes, node, root_for_score, 1, best) :
                          best \in {[node |-> NoNode, score |-> own]}})

\* the nodes of the subtree under n, n included
RECURSIVE Subtree(_, _)
Subtree(nodes, n) ==
    {n} \cup UNION {Subtree(nodes, nodes[n].childs[k]) : k \in 1..Len(nodes[n].childs)}

\* the best leaf itself is returned instead of the root's child above it
SearchResultBestLeaf(nodes) ==
    LET leafs == {n \in Subtree(nodes, 1) : IsLeaf(nodes, n) /\ n # 1}
        score(n) == ComputeNormalizedExpectation(nodes, n, 1)
        best == CHOOSE n \in leafs : \A m \in leafs : ~ Greater(score(m), score(n))
    IN  IF leafs # {} /\ Greater(score(best), [num |-> 0, den |-> 1])
        THEN [item |-> nodes[best].memory, score |-> score(best), node |-> best]
        ELSE [item |-> NoneItem, score |-> [num |-> 0, den |-> 1], node |-> NoNode]

\* what search() returns once the tree is built
SearchResult(nodes) ==
    LET best == BackwardGetBestCandidate(nodes, 1, 1)
    IN  IF best.node # NoNode
        THEN [item |-> nodes[best.node].memory, score |-> best.score, node |-> best.node]
        ELSE [item |-> NoneItem, score |-> [num |-> 0, den |-> 1], node |-> NoNode]

----------------------------------------------------------------------------
(* players/player_3/bst_player_presets.py: BayesianTreeBeamSearchPlayer *)

\* the agent is player 1; GLOBAL_BST_THRESHOLD = 0.5 and the other constants of
\* dynamic_threshold, in hundredths
Agent == 1

NoThreshold == -1

GlobalBstThreshold == 50

StaticBaseline == 45

ThresholdUpperBound == 60

BlendFactor == 60

\* int(10 / discount_rate) for discount_rate = 0.12
MaxContextLength == 83

\* dynamic_threshold: self.scorer.evaluate_at_position is not a method of
\* ConversationScorer, so reaching a non-pause entry raises AttributeError
DynamicThreshold(h) ==
    LET t == Len(h)
        spoken == \E i \in Max(0, t - MaxContextLength)..(t - 1) : At(h, i) # NoneItem
        ema == StaticBaseline
        threshold == (BlendFactor * ema + (100 - BlendFactor) * StaticBaseline) \div 100
    IN  IF spoken THEN [raised |-> TRUE, value |-> 0]
        ELSE [raised |-> FALSE, value |-> Min(threshold, ThresholdUpperBound)]

\* score > threhold, the score in units of 1 / (400 * len(preferences))
ExceedsThreshold(score, threhold, preferences) ==
    score.num > 4 * Len(preferences) * threhold * score.den

\* history.append(item) ... history.pop() inside evaluate forgets the pop
ScorerStackAfterEvaluateNoPop(item, stack) ==
    IF ScorerIsRepeated(item, stack) THEN stack ELSE Append(stack, item)

\* the list evaluate(item, stack) leaves behind: calculate_others_coherence_score_update
\* appends the item and pops it again, and is only reached for an item that is no repeat
ScorerStackAfterEvaluate(item, stack) ==
    IF ScorerIsRepeated(item, stack) THEN stack
    ELSE SubSeq(Append(stack, item), 1, Len(stack))

\* the memories of the branch from below the root to the leaf, pauses left out
BranchItems(nodes, leaf) ==
    LET branch_nodes == TreeBranchToList(nodes, leaf, 1)
    IN  SelectSeq([k \in 1..Len(branch_nodes) |-> nodes[branch_nodes[k]].memory],
                  LAMBDA memory : memory # NoneItem)

\* del context_stack[-len(branch_items):] when branch_items is not empty
StackAfterLeaf(stack, branch_items) ==
    IF branch_items # <<>> THEN SubSeq(stack, 1, Len(stack) - Len(branch_items)) ELSE stack

others == <<config, engine, pc, turn_impact, last_op, returned, result, output, twin>>

\* the agent before its first decision call, with its static threshold or None,
\* its depth and its breadth
AgentInit(static_threhold, max_depth, width) ==
    [phase |-> "idle", static_threhold |-> static_threhold,
     max_depth |-> max_depth, width |-> width, nodes |-> <<>>,
     leaves |-> <<>>, i |-> 1, j |-> 1, next_level_candidates |-> <<>>,
     context_stack |-> <<>>, initial_history |-> <<>>, branch_items |-> <<>>, depth |-> 0,
     best_item |-> NoneItem, score |-> [num |-> 0, den |-> 1], best_node |-> NoNode,
     threhold |-> 0, proposal |-> NoneItem, calls |-> 0]

\* the next phase at the top of the while loop of forward_construct_search_tree
\* the loop runs one level beyond the depth
LoopPhaseOneMore(leaves, depth, max_depth) ==
    IF leaves # <<>> /\ depth < max_depth + 1 THEN "level" ELSE "backward"

LoopPhase(leaves, depth, max_depth) ==
    IF leaves # <<>> /\ depth < max_depth THEN "level" ELSE "backward"

\* propose_item(history) is called in __get_proposals: the searcher gets
\* list(history) as its context stack, search() adds the root
ProposeCall ==
    /\ pc = "idle"
    /\ search.phase = "idle"
    /\ ~ IsOver(turn, conversation_length, consecutive_pauses)
    /\ search' = [AgentInit(search.static_threhold, search.max_depth, search.width) EXCEPT
                      !.phase = LoopPhase(<<1>>, 0, search.max_depth),
                      !.nodes = AddNode(<<>>, NoNode, NoneItem, 0),
                      !.leaves = <<1>>,
                      !.context_stack = history,
                      !.initial_history = history,
                      !.calls = search.calls + 1]
    /\ UNCHANGED others

\* for leaf in leaves: a pause leaf is carried over unexpanded
LeafCarry ==
    /\ search.phase = "level"
    /\ search.i <= Len(search.leaves)
    /\ LET leaf == search.leaves[search.i]
       IN  /\ search.nodes[leaf].memory = NoneItem /\ leaf # 1
           /\ search' = [search EXCEPT
                             !.next_level_candidates = Append(@, leaf),
                             !.i = @ + 1]
    /\ UNCHANGED others

\* for leaf in leaves: context_stack.extend(branch_items)
LeafBegin ==
    /\ search.phase = "level"
    /\ search.i <= Len(search.leaves)
    /\ LET leaf == search.leaves[search.i]
           branch_items == BranchItems(search.nodes, leaf)
       IN  /\ ~ (search.nodes[leaf].memory = NoneItem /\ leaf # 1)
           /\ search' = [search EXCEPT
                             !.phase = "items",
                             !.branch_items = branch_items,
                             !.context_stack = @ \o branch_items,
                             !.j = 1]
    /\ UNCHANGED others

\* for item in items: evaluate and add the item's node under the leaf
EvaluateItem ==
    /\ search.phase = "items"
    /\ search.j <= Len(snapshots[Agent].memory_bank)
    /\ \E score \in {ScorerEvaluate(snapshots[Agent].preferences,
                                     snapshots[Agent].memory_bank[search.j],
                                     search.context_stack)} :
       LET leaf == search.leaves[search.i]
           item == snapshots[Agent].memory_bank[search.j]
       IN  search' = [search EXCEPT
                          !.context_stack = ScorerStackAfterEvaluate(item, @),
                          !.nodes = AddNode(@, leaf, item, score),
                          !.next_level_candidates = Append(@, Len(search.nodes) + 1),
                          !.j = @ + 1]
    /\ UNCHANGED others

\* the pause node of the leaf, then the branch items leave the stack
LeafEnd ==
    /\ search.phase = "items"
    /\ search.j > Len(snapshots[Agent].memory_bank)
    /\ LET leaf == search.leaves[search.i]
       IN  search' = [search EXCEPT
                          !.phase = "level",
                          !.nodes = AddNode(@, leaf, NoneItem, 0),
                          !.next_level_candidates = Append(@, Len(search.nodes) + 1),
                          !.context_stack = StackAfterLeaf(@, search.branch_items),
                          !.i = @ + 1]
    /\ UNCHANGED others

\* the end of a level: the beam is selected, the rest pruned, depth += 1
SelectAndPrune ==
    /\ search.phase = "level"
    /\ search.i > Len(search.leaves)
    /\ \E top \in FindTopNodes(search.nodes, search.next_level_candidates, 1, search.width) :
           search' = [search EXCEPT
                          !.leaves = top,
                          !.nodes = PruneCandidates(@, search.next_level_candidates, 1, top),
                          !.next_level_candidates = <<>>,
                          !.i = 1,
                          !.depth = @ + 1,
                          !.phase = LoopPhase(top, search.depth + 1, search.max_depth)]
    /\ UNCHANGED others

\* backward selection and the decision to propose or pass
ProposeReturn ==
    /\ search.phase = "backward"
    /\ \E found \in {SearchResult(search.nodes)} :
       LET dynamic == DynamicThreshold(history)
           threhold == IF search.static_threhold # NoThreshold
                       THEN search.static_threhold ELSE dynamic.value
       IN  IF search.static_threhold = NoThreshold /\ dynamic.raised
           THEN search' = [search EXCEPT !.phase = "raised",
                                         !.best_item = found.item,
                                         !.score = found.score,
                                         !.best_node = found.node]
           ELSE search' = [search EXCEPT
                               !.phase = "returned",
                               !.best_item = found.item,
                               !.score = found.score,
                               !.best_node = found.node,
                               !.threhold = threhold,
                               !.proposal =
                                   IF ExceedsThreshold(found.score, threhold,
                                                       snapshots[Agent].preferences)
                                   THEN found.item ELSE NoneItem]
    /\ UNCHANGED others

\* the rest of the turn: the agent's proposal with what the other agents return
AgentTurn ==
    /\ pc = "idle"
    /\ search.phase = "returned"
    /\ \E rets \in [Players -> Proposable] :
           /\ rets[Agent] = search.proposal
           /\ \E coin \in BOOLEAN,
                 pick \in Picks(GetProposals(snapshots, rets), player_contributions) :
                  Turn(rets, coin, pick)
    /\ last_op' = "step"
    /\ output' = NoOutput
    /\ search' = [search EXCEPT !.phase = "idle"]
    /\ UNCHANGED <<config, pc, turn_impact, twin>>

\* player 1 is the beam-search agent, player 2 is any agent; both have two
\* items or an empty memory bank; every depth and breadth up to the bounds
SearchInit ==
    /\ \E ms \in {0, 2} :
           EngineInit(2, NumSubjects, ms, SearchConversationLength,
                      <<<<0>>, <<0, 1>>, <<1>>, <<0>>>>)
    /\ \E static_threhold \in {NoThreshold, GlobalBstThreshold},
          max_depth \in 0..SearchDepth, width \in 1..SearchWidth :
           search = AgentInit(static_threhold, max_depth, width)

InitSearch ==
    /\ SearchInit
    /\ twin = NoTwin
    /\ pc = "idle"
    /\ turn_impact = <<>>
    /\ last_op = "init"
    /\ returned = <<>>
    /\ result = NoResult
    /\ output = NoOutput

NextSearch ==
    \/ ProposeCall
    \/ LeafCarry
    \/ LeafBegin
    \/ EvaluateItem
    \/ LeafEnd
    \/ SelectAndPrune
    \/ ProposeReturn
    \/ AgentTurn

SpecSearch == InitSearch /\ [][NextSearch]_vars

\* the statements of one decision call, which runs to its end once called
SearchStep ==
    \/ LeafCarry
    \/ LeafBegin
    \/ EvaluateItem
    \/ LeafEnd
    \/ SelectAndPrune
    \/ ProposeReturn

SpecSearchFair == InitSearch /\ [][NextSearch]_vars /\ WF_vars(SearchStep)

----------------------------------------------------------------------------
(* Properties *)

AllPauses(h) == \A j \in 1..Len(h) : h[j] = NoneItem

RECURSIVE TrailingPauses(_)
TrailingPauses(h) ==
    IF h = <<>> THEN 0
    ELSE IF h[Len(h)] # NoneItem THEN 0
    ELSE 1 + TrailingPauses(SubSeq(h, 1, Len(h) - 1))

ThreePauses == <<NoneItem, NoneItem, NoneItem>>

Terminated == turn >= conversation_length \/ consecutive_pauses >= 3

\* C1: with conversation_length > 3, a game in which nobody ever speaks has at
\* most 3 turns; when step() returns None in it the history is exactly three
\* pauses, and a run() of it returns the history of three pauses with exactly
\* 3 turn results.
C1_AllPassEndsAfterThreeTurns ==
    (conversation_length > 3 /\ AllPauses(history)) =>
        /\ Len(history) <= 3
        /\ (last_op = "step" /\ result = NoResult) => history = ThreePauses
        /\ (last_op = "run" /\ pc = "idle") =>
               /\ history = ThreePauses
               /\ output.history = ThreePauses
               /\ Len(output.turn_impact) = 3

C1_Witness ==
    /\ conversation_length > 3
    /\ last_op = "run"
    /\ pc = "idle"
    /\ \A p \in Players : returned[p] = NoneItem
    /\ history = ThreePauses
    /\ Len(output.turn_impact) = 3

\* C2: when run() is only called on a fresh Engine, the history is never longer
\* than conversation_length and never holds more than 3 consecutive pauses.
C2_HistoryBounded ==
    /\ Len(history) <= conversation_length
    /\ \A j \in 1..(Len(history) - 3) :
           \E k \in j..(j + 3) : history[k] # NoneItem

C2_Witness ==
    /\ Len(history) = conversation_length
    /\ Len(history) > 3
    /\ history[1] # NoneItem
    /\ TrailingPauses(history) = 3

\* C3: once the game has terminated, every operation leaves history, the
\* contribution map, turn, consecutive_pauses and last_player_id unchanged, and
\* a step() returns None.
C3_TerminatedIsFrozen ==
    [][Terminated =>
          /\ UNCHANGED engine
          /\ Step => result' = NoResult]_vars

\* the agents whose return value of the last turn is an item of their own memory bank
OwnProposers(rets) ==
    {p \in Players : rets[p] # NoneItem /\ rets[p] \in Range(snapshots[p].memory_bank)}

ForeignProposers(rets) ==
    {p \in Players : rets[p] # NoneItem /\ rets[p] \notin Range(snapshots[p].memory_bank)}

LastEntry(h) == h[Len(h)]

\* the id of the item was already in the history before the last turn
ConsumedBeforeLastTurn(item) ==
    \E j \in 1..(Len(history) - 1) : history[j] # NoneItem /\ history[j].id = item.id

RepeatImpact(impact) ==
    /\ impact.importance = 0
    /\ impact.coherence = 0
    /\ impact.freshness = 0
    /\ impact.nonmonotonousness = -1

\* C4: in every turn, an agent whose proposal is not an element of its own
\* memory_bank is not a candidate and not the speaker, the appended item is an
\* element of the speaker's own memory_bank, and when every proposal is None or
\* foreign the turn is a pause.
C4_ForeignProposalDiscarded ==
    result # NoResult =>
        /\ \A p \in ForeignProposers(returned) :
               p \notin DOMAIN result.proposals /\ result.speaker_id # p
        /\ LastEntry(history) # NoneItem =>
               LastEntry(history) \in Range(snapshots[result.speaker_id].memory_bank)
        /\ OwnProposers(returned) = {} =>
               /\ result.item = NoneItem
               /\ result.speaker_id = NoneId
               /\ LastEntry(history) = NoneItem

C4_Witness ==
    /\ result # NoResult
    /\ ForeignProposers(returned) # {}
    /\ OwnProposers(returned) = {}
    /\ Len(history) >= 2
    /\ LastEntry(history) = NoneItem

\* C5 as claimed: an agent proposing an item whose id already occurs in the
\* history is not selected as speaker and the item is not appended again.
C5_ConsumedProposalIsPass ==
    result # NoResult =>
        \A p \in Players :
            (returned[p] # NoneItem /\ ConsumedBeforeLastTurn(returned[p])) =>
                result.speaker_id # p /\ LastEntry(history) # returned[p]

\* C5 amended: a proposal of an already-consumed item of the proposer's own
\* memory_bank is a valid proposal: the proposer is a candidate, the turn is not
\* a pause, a sole such proposer is the speaker, and when the proposer is the
\* speaker the item is appended again with the score impact of a repeat.
C5_ConsumedProposalStillValid ==
    result # NoResult =>
        \A p \in OwnProposers(returned) :
            ConsumedBeforeLastTurn(returned[p]) =>
                /\ p \in DOMAIN result.proposals
                /\ result.proposals[p] = returned[p]
                /\ result.speaker_id # NoneId
                /\ OwnProposers(returned) = {p} => result.speaker_id = p
                /\ result.speaker_id = p =>
                       /\ LastEntry(history) = returned[p]
                       /\ RepeatImpact(result.score_impact)

C5_Witness ==
    /\ result # NoResult
    /\ \E p \in OwnProposers(returned) :
           /\ ConsumedBeforeLastTurn(returned[p])
           /\ result.speaker_id = p
           /\ LastEntry(history) = returned[p]

\* C6: in every turn with at least one valid proposal the speaker is one of the
\* valid proposers and the appended item is the speaker's own proposal; the
\* speaker is the previous turn's speaker or has the minimal contribution count
\* among the proposers, and has the minimal count whenever the previous turn was
\* a pause or the previous speaker did not propose.
C6_SpeakerSelection ==
    [][turn' = turn + 1 =>
          LET P == OwnProposers(returned')
              sp == result'.speaker_id
              prev == IF history = <<>> THEN NoneId ELSE LastEntry(history).player_id
              Minimal(u) == \A v \in P : Len(player_contributions[u])
                                             <= Len(player_contributions[v])
          IN  P # {} =>
                  /\ sp \in P
                  /\ result'.item = returned'[sp]
                  /\ history' = Append(history, returned'[sp])
                  /\ sp = prev \/ Minimal(sp)
                  /\ (prev = NoneId \/ prev \notin P) => Minimal(sp)]_vars

\* the previous speaker kept the floor although another proposer had spoken less
C6_Witness ==
    /\ result # NoResult
    /\ result.speaker_id # NoneId
    /\ Len(history) >= 2
    /\ history[Len(history) - 1].player_id = result.speaker_id
    /\ \E q \in DOMAIN result.proposals :
           Len(player_contributions[q]) < Len(player_contributions[result.speaker_id]) - 1

\* C7: turn is the length of the history, consecutive_pauses is the number of
\* trailing pauses of the history, and last_player_id is None exactly when the
\* history is empty or ends with a pause, otherwise the speaker of the last entry.
C7_CountersMatchHistory ==
    /\ turn = Len(history)
    /\ consecutive_pauses = TrailingPauses(history)
    /\ (last_player_id = NoneId) <=> (history = <<>> \/ LastEntry(history) = NoneItem)
    /\ (history # <<>> /\ LastEntry(history) # NoneItem) =>
           /\ last_player_id = LastEntry(history).player_id
           /\ result # NoResult => last_player_id = result.speaker_id

C7_Witness ==
    /\ Len(history) >= 3
    /\ history[Len(history) - 2] # NoneItem
    /\ history[Len(history) - 1] = NoneItem
    /\ LastEntry(history) # NoneItem
    /\ consecutive_pauses = 0
    /\ last_player_id = LastEntry(history).player_id

\* the entry at index i is an item whose id does not occur before i
FirstOccurrence(h, i) ==
    At(h, i) # NoneItem /\ \A j \in 0..(i - 1) : At(h, j).id # At(h, i).id

\* the entry at index i is an item whose id occurs before i
LaterOccurrence(h, i) ==
    At(h, i) # NoneItem /\ \E j \in 0..(i - 1) : At(h, j).id = At(h, i).id

\* the sums of __calculate_scores after the entries 0..n-1 of the history
ScoresAfter(h, n) == ScoreLoop(h, 0, n, {}, ZeroScores).acc

\* C8: every occurrence of an item after the first occurrence of its id adds
\* importance 0, coherence 0, freshness 0 and non-monotonousness -1 to the sums
\* of the final shared score breakdown, and has that score impact in its turn.
C8_RepeatsScoreNothing ==
    /\ \A i \in 0..(Len(history) - 1) :
           LaterOccurrence(history, i) =>
               ScoresAfter(history, i + 1) =
                   [ScoresAfter(history, i) EXCEPT !.nonmonotonousness = @ - 1]
    /\ (result # NoResult /\ LaterOccurrence(history, Len(history) - 1)) =>
           RepeatImpact(result.score_impact)
    /\ last_op = "final_scores" =>
           LET b == output.shared_score_breakdown
               a == ScoresAfter(history, Len(history))
           IN  /\ b.importance = a.importance
               /\ b.coherence = a.coherence
               /\ b.freshness = a.freshness
               /\ b.nonmonotonousness = a.nonmonotonousness

C8_Witness ==
    /\ last_op = "final_scores"
    /\ result # NoResult
    /\ LaterOccurrence(history, Len(history) - 1)
    /\ LastEntry(history).importance > 0
    /\ Len(history) >= 3
    /\ output.shared_score_breakdown.nonmonotonousness <= -1

\* the entries within 3 positions of i that no pause separates from i
CoherenceWindow(h, i) ==
    {j \in 0..(Len(h) - 1) :
        /\ j # i
        /\ j >= i - 3
        /\ j <= i + 3
        /\ \A k \in Min(i, j)..Max(i, j) : At(h, k) # NoneItem}

WindowOccurrences(h, i, s) ==
    Cardinality({j \in CoherenceWindow(h, i) : s \in Range(At(h, j).subjects)})

WindowCoherence(h, i) ==
    LET subj == Range(At(h, i).subjects)
    IN  IF \E s \in subj : WindowOccurrences(h, i, s) = 0 THEN -1
        ELSE IF \A s \in subj : WindowOccurrences(h, i, s) >= 2 THEN 1
        ELSE 0

RECURSIVE SumWindowCoherence(_, _)
SumWindowCoherence(h, i) ==
    IF i >= Len(h) THEN 0
    ELSE (IF FirstOccurrence(h, i) THEN WindowCoherence(h, i) ELSE 0)
         + SumWindowCoherence(h, i + 1)

\* C9: for every first-occurrence item at index i the coherence score is -1 if
\* some subject of the item does not occur in the window of up to 3 entries
\* before and up to 3 entries after i (each side stopping at the first pause or
\* the history boundary), +1 if every subject occurs at least twice in it and 0
\* otherwise; the coherence of the final breakdown is the sum of these scores.
C9_CoherenceWindow ==
    /\ \A i \in 0..(Len(history) - 1) :
           FirstOccurrence(history, i) =>
               CalculateCoherenceScore(history, i, At(history, i))
                   = WindowCoherence(history, i)
    /\ last_op = "final_scores" =>
           output.shared_score_breakdown.coherence = SumWindowCoherence(history, 0)

\* a first occurrence whose subject is carried by the entry 4 places before it
\* and by nothing in its window, with entries on both sides
C9_Witness ==
    /\ last_op = "final_scores"
    /\ \E i \in 4..(Len(history) - 2) :
           /\ FirstOccurrence(history, i)
           /\ At(history, i - 4) # NoneItem
           /\ Cardinality(CoherenceWindow(history, i)) >= 4
           /\ \E s \in Range(At(history, i).subjects) :
                  /\ s \in Range(At(history, i - 4).subjects)
                  /\ WindowOccurrences(history, i, s) = 0
           /\ WindowCoherence(history, i) = -1

\* the up-to-n non-pause entries immediately preceding index p
LastItemsBefore(h, p, n) ==
    {j \in 0..(p - 1) :
        /\ At(h, j) # NoneItem
        /\ Cardinality({k \in j..(p - 1) : At(h, k) # NoneItem}) <= n}

NovelSubjects(h, i, J) ==
    Cardinality({s \in Range(At(h, i).subjects) :
                    \A j \in J : s \notin Range(At(h, j).subjects)})

\* C10 as claimed: freshness is 0 unless the entry at i-1 is a pause, and then
\* the number of the item's subjects absent from the up-to-6 non-pause items
\* immediately preceding that pause.
C10_FreshnessSixItems ==
    \A i \in 0..(Len(history) - 1) :
        At(history, i) # NoneItem =>
            CalculateFreshnessScore(history, i, At(history, i)) =
                IF i = 0 \/ At(history, i - 1) # NoneItem THEN 0
                ELSE NovelSubjects(history, i, LastItemsBefore(history, i - 1, 6))

\* the non-pause entries among the up-to-5 history entries i-6..i-2
FiveSlotsBefore(h, i) ==
    {j \in 0..(i - 2) : j >= i - 6 /\ At(h, j) # NoneItem}

\* C10 amended: freshness is 0 unless the entry at i-1 is a pause, and then the
\* number of the item's subjects absent from the non-pause items among the
\* up-to-5 history entries immediately preceding that pause (indices i-6..i-2);
\* a first occurrence has this value as the freshness of its turn's impact.
C10_FreshnessFiveSlots ==
    /\ \A i \in 0..(Len(history) - 1) :
           At(history, i) # NoneItem =>
               CalculateFreshnessScore(history, i, At(history, i)) =
                   IF i = 0 \/ At(history, i - 1) # NoneItem THEN 0
                   ELSE NovelSubjects(history, i, FiveSlotsBefore(history, i))
    /\ (result # NoResult /\ FirstOccurrence(history, Len(history) - 1)) =>
           result.score_impact.freshness =
               IF Len(history) = 1 \/ At(history, Len(history) - 2) # NoneItem THEN 0
               ELSE NovelSubjects(history, Len(history) - 1,
                                  FiveSlotsBefore(history, Len(history) - 1))

\* a subject carried only by the 6th item before the pause counts as novel
C10_Witness ==
    /\ result # NoResult
    /\ Len(history) >= 8
    /\ LET i == Len(history) - 1
       IN  /\ FirstOccurrence(history, i)
           /\ At(history, i - 1) = NoneItem
           /\ \A j \in (i - 7)..(i - 2) : At(history, j) # NoneItem
           /\ result.score_impact.freshness = 1
           /\ NovelSubjects(history, i, LastItemsBefore(history, i - 1, 6)) = 0


----------------------------------------------------------------------------
(* Non-monotonousness *)

\* the entry at index j exists, is an item and has a subject in common with x
SharesSubject(h, j, x) ==
    /\ j >= 0
    /\ j < Len(h)
    /\ At(h, j) # NoneItem
    /\ Range(At(h, j).subjects) \cap Range(x.subjects) # {}

\* the non-monotonousness the rule gives the item at index i
StreakPenalty(h, i) ==
    IF LaterOccurrence(h, i) THEN -1
    ELSE IF SharesSubject(h, i - 3, At(h, i))
            /\ SharesSubject(h, i - 2, At(h, i))
            /\ SharesSubject(h, i - 1, At(h, i))
         THEN -1
         ELSE 0

\* C11: the non-monotonousness of the item at index i is -1 if the item is a
\* repeat; otherwise -1 exactly when each of the entries at i-3, i-2 and i-1
\* exists, is not a pause and shares a subject with the item; otherwise 0 (so 0
\* when i < 3 or one of the three entries is a pause). This is what the turn's
\* impact reports and what the score loop adds for the entry.
C11_NonmonotonousnessRule ==
    /\ \A i \in 0..(Len(history) - 1) :
           At(history, i) # NoneItem =>
               /\ CalculateNonmonotonousnessScore(history, i, At(history, i),
                                                  LaterOccurrence(history, i))
                      = StreakPenalty(history, i)
               /\ (FirstOccurrence(history, i)
                     /\ (i < 3 \/ \E j \in (i - 3)..(i - 1) : At(history, j) = NoneItem))
                      => StreakPenalty(history, i) = 0
    /\ (result # NoResult /\ LastEntry(history) # NoneItem) =>
           LET i == Len(history) - 1
           IN  /\ result.score_impact.nonmonotonousness = StreakPenalty(history, i)
               /\ ScoresAfter(history, i + 1).nonmonotonousness
                      = ScoresAfter(history, i).nonmonotonousness
                            + StreakPenalty(history, i)

\* a first occurrence that is penalised after three subject-sharing entries, in a
\* history where an earlier first occurrence shared a subject with everything
\* before it and was not penalised
C11_Witness ==
    /\ result # NoResult
    /\ Len(history) >= 4
    /\ LET i == Len(history) - 1
       IN  /\ FirstOccurrence(history, i)
           /\ result.score_impact.nonmonotonousness = -1
           /\ \E k \in 1..(i - 1) :
                  /\ FirstOccurrence(history, k)
                  /\ \A j \in 0..(k - 1) : SharesSubject(history, j, At(history, k))
                  /\ StreakPenalty(history, k) = 0


\* the entries at i-2, i-1 and i are three distinct items, none of them a repeat,
\* each with subjects = (3,)
HotStreak(h, i) ==
    /\ i >= 2
    /\ i < Len(h)
    /\ \A j \in (i - 2)..i : FirstOccurrence(h, j) /\ At(h, j).subjects = <<3>>

\* C12 as claimed: when items with subjects = (3,) are the chosen item on 3
\* consecutive turns (three distinct, non-repeated items), the 3rd occurrence
\* receives non-monotonousness -1.
C12_ThirdOccurrencePenalised ==
    \A i \in 0..(Len(history) - 1) :
        HotStreak(history, i) =>
            CalculateNonmonotonousnessScore(history, i, At(history, i), FALSE) = -1

\* C12 amended: the 3rd of three consecutive distinct items with subjects = (3,)
\* receives non-monotonousness -1 exactly when the entry just before the three
\* is an item that also carries subject 3, and 0 otherwise (the streak opens the
\* conversation, or follows a pause or an item on other subjects); so of four
\* such items on 4 consecutive turns the 4th receives -1, in its turn's impact too.
C12_FourthOccurrencePenalised ==
    /\ \A i \in 0..(Len(history) - 1) :
           HotStreak(history, i) =>
               /\ CalculateNonmonotonousnessScore(history, i, At(history, i), FALSE)
                      = IF SharesSubject(history, i - 3, At(history, i)) THEN -1 ELSE 0
               /\ HotStreak(history, i - 1) =>
                      CalculateNonmonotonousnessScore(history, i, At(history, i), FALSE) = -1
    /\ (result # NoResult /\ HotStreak(history, Len(history) - 1)) =>
           result.score_impact.nonmonotonousness
               = IF SharesSubject(history, Len(history) - 4, LastEntry(history))
                 THEN -1 ELSE 0

\* four distinct items on subject 3 on the last four turns: the 4th is penalised,
\* the 3rd was not
C12_Witness ==
    /\ result # NoResult
    /\ Len(history) >= 5
    /\ HotStreak(history, Len(history) - 1)
    /\ HotStreak(history, Len(history) - 2)
    /\ result.score_impact.nonmonotonousness = -1
    /\ CalculateNonmonotonousnessScore(history, Len(history) - 2,
                                       At(history, Len(history) - 2), FALSE) = 0


----------------------------------------------------------------------------
(* Windows and pause boundaries *)

\* the history with the entry at index k replaced by e
Replaced(h, k, e) == [h EXCEPT ![k + 1] = e]

\* the indices that a pause lying strictly between them and i separates from i
BeyondPause(h, i) ==
    {k \in 0..(Len(h) - 1) :
        \E p \in (Min(i, k) + 1)..(Max(i, k) - 1) : At(h, p) = NoneItem}

\* the indices before the pause at i-1 that a further pause separates from it
BeyondFurtherPause(h, i) ==
    {k \in 0..(i - 2) : \E p \in (k + 1)..(i - 2) : At(h, p) = NoneItem}

\* the indices whose entries the freshness of the item at i is computed from
FreshnessSlots(h, i) == {k \in 0..(i - 1) : k >= i - 6}

\* the Engine's and the Scorer's coherence and non-monotonousness of the item at
\* index i of h, for both values of the repeat flag
BoundedScores(h, i) ==
    <<CalculateCoherenceScore(h, i, At(h, i)),
      CalculateNonmonotonousnessScore(h, i, At(h, i), FALSE),
      CalculateNonmonotonousnessScore(h, i, At(h, i), TRUE),
      ScorerCoherenceScore(At(h, i), i, h),
      ScorerNonmonotonousnessScore(At(h, i), i, h, FALSE)>>

FreshnessScores(h, i) ==
    <<CalculateFreshnessScore(h, i, At(h, i)), ScorerFreshnessScore(At(h, i), i, h)>>

\* replacing any entry of K by any entry leaves F(h, i) as it is
Independent(F(_, _), h, i, K) ==
    \A k \in K : \A e \in Proposable : F(Replaced(h, k, e), i) = F(h, i)

----------------------------------------------------------------------------
(* Individual bonus and final scores *)

\* final_scores() was the last call to return: output is its value for this history
FinalScoresReturned == last_op = "final_scores" /\ pc = "idle"

\* the sum of the preference bonuses of the entries i.. of h that player uid spoke
RECURSIVE SpokenBonus(_, _, _, _)
SpokenBonus(preferences, uid, h, i) ==
    IF i >= Len(h) THEN 0
    ELSE (IF At(h, i) # NoneItem /\ At(h, i).player_id = uid
          THEN PreferenceBonus(preferences, At(h, i)) ELSE 0)
         + SpokenBonus(preferences, uid, h, i + 1)

\* C14: in final_scores() each player's 'individual' value is the sum, over the
\* history entries this player spoke, of the average over the item's subjects of
\* (1 - rank/|S|) under the player's preferences; items spoken by other players
\* add nothing to it.
C14_IndividualOnlyToSpeaker ==
    FinalScoresReturned =>
        \A uid \in Players :
            output.player_scores[uid].individual
                = SpokenBonus(snapshots[uid].preferences, uid, history, 0)


\* importance, coherence, freshness and non-monotonousness by the rules, each
\* credited to first occurrences only (a later occurrence adds -1 to the last)
RuleImportance(h, i) == IF FirstOccurrence(h, i) THEN At(h, i).importance ELSE 0

RuleFreshness(h, i) ==
    IF FirstOccurrence(h, i) /\ i > 0 /\ At(h, Max(i - 1, 0)) = NoneItem
    THEN NovelSubjects(h, i, FiveSlotsBefore(h, i))
    ELSE 0

\* the shared total of the whole history by the rules, in hundredths
RuleShared(h) ==
    SumSeq([k \in 1..Len(h) |->
               IF h[k] = NoneItem THEN 0
               ELSE RuleImportance(h, k - 1)
                    + 100 * ((IF FirstOccurrence(h, k - 1) THEN WindowCoherence(h, k - 1) ELSE 0)
                             + RuleFreshness(h, k - 1)
                             + StreakPenalty(h, k - 1))])

\* C15: final_scores() reports for each player total = (shared + the player's
\* individual bonus) / conversation_length, the bonus being that of the items
\* the player spoke and shared the sum of the four components over the history
\* with first-occurrence crediting; the divisor is the configured
\* conversation_length, the reported 'conversation_length' is len(history) and
\* 'pauses' the number of pause entries.
C15_FinalScoresFormula ==
    FinalScoresReturned =>
        /\ output.conversation_length = Len(history)
        /\ output.pauses = Cardinality({k \in 1..Len(history) : history[k] = NoneItem})
        /\ output.shared_score_breakdown.total = RuleShared(history)
        /\ \A uid \in Players :
               LET s == output.player_scores[uid]
                   n == Len(subjects)
                   bonus == SpokenBonus(snapshots[uid].preferences, uid, history, 0)
               IN  /\ s.shared = RuleShared(history)
                   /\ s.total.num * (200 * n * conversation_length)
                          = (2 * n * RuleShared(history) + 100 * bonus) * s.total.den

\* the same arithmetic with the reported 'individual' value in place of the bonus
\* of the items the player spoke: this much of the formula the Engine satisfies
FinalScoresArithmetic ==
    FinalScoresReturned =>
        /\ output.conversation_length = Len(history)
        /\ output.pauses = Cardinality({k \in 1..Len(history) : history[k] = NoneItem})
        /\ output.shared_score_breakdown.total = RuleShared(history)
        /\ \A uid \in Players :
               LET s == output.player_scores[uid]
                   n == Len(subjects)
               IN  /\ s.shared = RuleShared(history)
                   /\ s.total.num * (200 * n * conversation_length)
                          = (2 * n * RuleShared(history) + 100 * s.individual) * s.total.den


----------------------------------------------------------------------------
(* Determinism *)

\* C16: two runs constructed with the identical seed, the same player classes
\* and the same parameters have the identical full history (same items, ids
\* and order of speakers and pauses) and identical final scores.
C16_SameSeedSameRun ==
    twin # NoTwin =>
        /\ twin.history = history
        /\ twin.last_player_id = last_player_id
        /\ FinalScores(twin.snapshots, twin.history, conversation_length, Len(subjects))
               = FinalScores(snapshots, history, conversation_length, Len(subjects))


----------------------------------------------------------------------------
(* The Scorer against the Engine *)

\* the history before the last turn
HistoryBefore == SubSeq(history, 1, Len(history) - 1)

\* the four components c and their sum are those of the turn's score impact
MirrorsImpact(c, shared_total, impact) ==
    /\ c.importance = impact.importance
    /\ c.coherence = impact.coherence
    /\ c.freshness = impact.freshness
    /\ c.nonmonotonousness = impact.nonmonotonousness
    /\ shared_total = impact.total

\* the Scorer of players/player_3/utils.py gives the candidate the Engine's impact
PlayerScorerMirrorsEngine ==
    (result # NoResult /\ result.item # NoneItem) =>
        MirrorsImpact(ScorerSharedComponents(result.item, HistoryBefore),
                      ScorerSharedScore(result.item, HistoryBefore),
                      result.score_impact)

\* C18: for every history h and candidate x, the importance, coherence,
\* freshness and non-monotonousness that each ConversationScorer
\* (players/player_3/utils.py and core/utils.py) computes for x at position
\* len(h), and their sum, equal the components and the total of the Engine's
\* per-turn score impact for x appended to h.
C18_ScorersMirrorEngine ==
    (result # NoResult /\ result.item # NoneItem) =>
        /\ MirrorsImpact(ScorerSharedComponents(result.item, HistoryBefore),
                         ScorerSharedScore(result.item, HistoryBefore),
                         result.score_impact)
        /\ MirrorsImpact(CoreScorerSharedComponents(result.item, HistoryBefore),
                         CoreScorerSharedScore(result.item, HistoryBefore),
                         result.score_impact)

----------------------------------------------------------------------------
(* C17: the decision call and the history *)

Searching == search.phase \in {"level", "items", "backward", "returned", "raised"}

\* at least one evaluate call of the current leaf has returned
AfterEvaluate == search.phase = "items" /\ search.j > 1

\* C17 (as stated): a decision call leaves the Engine's history as it was, and
\* the context stack of the search equals the initial history after every leaf
\* expansion and after every evaluate call.
C17_StackEqualsInitialHistory ==
    Searching =>
        /\ history = search.initial_history
        /\ (search.phase # "items" \/ AfterEvaluate) =>
               search.context_stack = search.initial_history

\* C17 (amended): a decision call leaves the Engine's history as it was; the
\* context stack equals the initial history after every leaf expansion, and
\* every evaluate call leaves the stack as it found it, which during the
\* expansion of a leaf is the initial history followed by the leaf's branch items.
C17_StackRestored ==
    Searching =>
        /\ history = search.initial_history
        /\ search.phase # "items" => search.context_stack = search.initial_history
        /\ search.phase = "items" =>
               search.context_stack = search.initial_history \o search.branch_items

\* an evaluate call below the first level has appended and popped its item:
\* the leaf has a branch item, the item evaluated last was no repeat and had a
\* past neighbour whose coherence was recomputed
C17_Witness ==
    /\ AfterEvaluate
    /\ search.branch_items # <<>>
    /\ search.initial_history # <<>>
    /\ ~ ScorerIsRepeated(snapshots[Agent].memory_bank[search.j - 1],
                          search.initial_history \o search.branch_items)
    /\ search.context_stack = search.initial_history \o search.branch_items


----------------------------------------------------------------------------
(* C19: backward selection *)

SearchReturned == search.phase \in {"returned", "raised"}

Expectation(n) == ComputeNormalizedExpectation(search.nodes, n, 1)

SameValue(a, b) == a.num * b.den = b.num * a.den

\* C19: search() returns the memory of a child of the root whose subtree holds
\* a retained node of globally maximal normalized path expectation, with that
\* maximum as the score, and never a node below depth 1; when no retained node
\* has an expectation above the root's 0 it returns (None, 0).
C19_BackwardSelection ==
    SearchReturned =>
        LET nodes == search.nodes
            retained == Subtree(nodes, 1)
        IN  /\ \A n \in retained : ~ Greater(Expectation(n), search.score)
            /\ IF search.best_node = NoNode
               THEN /\ search.best_item = NoneItem
                    /\ SameValue(search.score, [num |-> 0, den |-> 1])
               ELSE /\ nodes[search.best_node].father = 1
                    /\ InTuple(search.best_node, nodes[1].childs)
                    /\ search.best_item = nodes[search.best_node].memory
                    /\ \E n \in Subtree(nodes, search.best_node) :
                           SameValue(Expectation(n), search.score)

\* the maximum lies below depth 1: a grandchild of the root is strictly better
\* than the child that is returned for it
C19_Witness ==
    /\ SearchReturned
    /\ search.best_node # NoNode
    /\ \E n \in Subtree(search.nodes, search.best_node) :
           /\ n # search.best_node
           /\ SameValue(Expectation(n), search.score)
           /\ Greater(Expectation(n), Expectation(search.best_node))


----------------------------------------------------------------------------
(* C20: the decision rule *)

SpokenItemIn(h) == \E k \in 1..Len(h) : h[k] # NoneItem

\* C20: for every history propose_item completes without error and returns the
\* item found by the search exactly when the score strictly exceeds the
\* threshold, None otherwise; the threshold is the static constant when one is
\* configured, otherwise the dynamic threshold, which is at most 0.6 and equals
\* the static baseline 0.45 when the history holds no spoken item.
C20_DecisionRule ==
    /\ search.phase # "raised"
    /\ search.phase = "returned" =>
           /\ search.proposal =
                  IF ExceedsThreshold(search.score, search.threhold,
                                      snapshots[Agent].preferences)
                  THEN search.best_item ELSE NoneItem
           /\ search.static_threhold # NoThreshold =>
                  search.threhold = search.static_threhold
           /\ search.static_threhold = NoThreshold =>
                  /\ search.threhold <= ThresholdUpperBound
                  /\ ~ SpokenItemIn(history) => search.threhold = StaticBaseline

\* what remains of the rule: every decision call that returns follows it
DecisionRuleWhenReturned ==
    search.phase = "returned" =>
        /\ search.proposal =
               IF ExceedsThreshold(search.score, search.threhold,
                                   snapshots[Agent].preferences)
               THEN search.best_item ELSE NoneItem
        /\ search.threhold = IF search.static_threhold # NoThreshold
                             THEN search.static_threhold ELSE StaticBaseline
        /\ search.static_threhold = NoThreshold => ~ SpokenItemIn(history)


----------------------------------------------------------------------------
(* C21: the beam after pruning *)

\* the pruning step of a level has just run
AfterPruning ==
    \/ search.phase = "level" /\ search.i = 1 /\ search.depth >= 1
    \/ search.phase \in {"backward", "returned", "raised"} /\ search.depth >= 1

NodeDepth(nodes, n) == Len(TreeBranchToList(nodes, n, 1))

NodesAtDepth(nodes, d) == {n \in Subtree(nodes, 1) : NodeDepth(nodes, n) = d}

\* C21: after the pruning step of each level at most W nodes of that level's
\* depth are reachable from the root.
C21_AtMostWidthNodesPerLevel ==
    AfterPruning =>
        Cardinality(NodesAtDepth(search.nodes, search.depth)) <= search.width

\* the nodes of the level that stay in the tree are the beam and the pause
\* nodes that were not selected
PrunedLevelKeepsBeamAndPauses ==
    AfterPruning =>
        \A n \in NodesAtDepth(search.nodes, search.depth) :
            InTuple(n, search.leaves) \/ search.nodes[n].memory = NoneItem


----------------------------------------------------------------------------
(* C22: what pruning detaches *)

\* n has no father and is in no children list
Detached(nodes, n) ==
    /\ nodes[n].father = NoNode
    /\ \A m \in 1..Len(nodes) : ~ InTuple(n, nodes[m].childs)

\* n is the root or lies on the root path of a selected leaf
OnSelectedPath(nodes, leaves, n) ==
    n = 1 \/ \E k \in 1..Len(leaves) : InTuple(n, TreeBranchToList(nodes, leaves[k], 1))

\* C22: after the pruning step of each level every candidate that was not
\* selected, item node or pause node, is fully detached, childless ancestors
\* are removed up to the root, so every node reachable from the root lies on
\* the root path of a selected leaf; the root is never removed.
C22_UnselectedDetached ==
    AfterPruning =>
        /\ \A n \in 2..Len(search.nodes) :
               OnSelectedPath(search.nodes, search.leaves, n) \/ Detached(search.nodes, n)
        /\ \A n \in Subtree(search.nodes, 1) :
               OnSelectedPath(search.nodes, search.leaves, n)
        /\ search.nodes[1].memory = NoneItem /\ search.nodes[1].father = NoNode

\* what pruning does achieve: a childless node left in the tree is a selected
\* leaf or a pause node, a node that lost its father is in no children list,
\* a node with a father is in that father's list, and the root stays
PrunedTreeLeaves ==
    AfterPruning =>
        /\ \A n \in Subtree(search.nodes, 1) \ {1} :
               IsLeaf(search.nodes, n) =>
                   InTuple(n, search.leaves) \/ search.nodes[n].memory = NoneItem
        /\ \A n \in 2..Len(search.nodes) :
               search.nodes[n].father = NoNode => Detached(search.nodes, n)
        /\ \A n \in 2..Len(search.nodes) :
               search.nodes[n].father # NoNode =>
                   InTuple(n, search.nodes[search.nodes[n].father].childs)
        /\ search.nodes[1].memory = NoneItem /\ search.nodes[1].father = NoNode


----------------------------------------------------------------------------
(* C23: prior probabilities *)

RECURSIVE Power(_, _)
Power(b, e) == IF e = 0 THEN 1 ELSE b * Power(b, e - 1)

\* every node under the root has half the prior probability of its father,
\* and root_probability / 2^depth
PriorProbabilityDecays(nodes) ==
    /\ nodes[1].prior_probability = RootProbability
    /\ \A n \in Subtree(nodes, 1) \ {1} :
           /\ 2 * nodes[n].prior_probability = nodes[nodes[n].father].prior_probability
           /\ nodes[n].prior_probability * Power(2, NodeDepth(nodes, n)) = RootProbability

\* C23: at every point of a search every node of the tree other than the root
\* has the prior probability of its father times decay_rate, hence
\* root_probability * decay_rate^depth, whatever the branching; and no step of
\* the search, pruning included, changes the prior probability of a node that
\* exists already, attached or detached.
C23_PriorProbabilityDecays ==
    [][search'.phase \in {"level", "items", "backward", "returned", "raised"} =>
          /\ PriorProbabilityDecays(search'.nodes)
          /\ search.calls = search'.calls =>
                 \A n \in 1..Len(search.nodes) :
                     /\ n <= Len(search'.nodes)
                     /\ search'.nodes[n].prior_probability
                            = search.nodes[n].prior_probability]_vars

\* a node two levels below the root is in the tree after a pruning step that
\* removed one of the candidates
C23_Witness ==
    /\ AfterPruning
    /\ \E n \in Subtree(search.nodes, 1) : NodeDepth(search.nodes, n) = 2
    /\ \E n \in 2..Len(search.nodes) : search.nodes[n].father = NoNode


----------------------------------------------------------------------------
(* C24: normalized path expectation and beam selection *)

\* sum(prior_probability * score) / sum(prior_probability) over the root path
\* of n without the root, a pause node counting with score 0
ExpectationCountingPauses(nodes, n) ==
    LET path_nodes == TreeBranchToList(nodes, n, 1)
    IN  [num |-> SumSeq([k \in 1..Len(path_nodes) |->
                            nodes[path_nodes[k]].prior_probability
                                * nodes[path_nodes[k]].score]),
         den |-> SumSeq([k \in 1..Len(path_nodes) |->
                            nodes[path_nodes[k]].prior_probability])]

\* the same sums over the item nodes of the path only
ExpectationOfItems(nodes, n) ==
    LET path_nodes == TreeBranchToList(nodes, n, 1)
        items == SelectSeq(path_nodes, LAMBDA m : nodes[m].memory # NoneItem)
    IN  IF items = <<>> THEN [num |-> 0, den |-> 1]
        ELSE [num |-> SumSeq([k \in 1..Len(items) |->
                                 nodes[items[k]].prior_probability * nodes[items[k]].score]),
              den |-> SumSeq([k \in 1..Len(items) |-> nodes[items[k]].prior_probability])]

\* the step that selects the beam of a level
SelectionStep ==
    /\ search.phase = "level"
    /\ search.i > Len(search.leaves)
    /\ search'.depth = search.depth + 1

\* the new leaves are min(W, number of candidates) distinct candidates, none
\* of them worse than a candidate left out
BeamKeepsBest ==
    LET candidates == search.next_level_candidates
        top == search'.leaves
        score(n) == ComputeNormalizedExpectation(search.nodes, n, 1)
    IN  /\ Len(top) = Min(search.width, Len(candidates))
        /\ \A a \in 1..Len(top) : InTuple(top[a], candidates)
        /\ \A a, b \in 1..Len(top) : a # b => top[a] # top[b]
        /\ \A k \in 1..Len(candidates) :
               ~ InTuple(candidates[k], top) =>
                   \A a \in 1..Len(top) : ~ Greater(score(candidates[k]), score(top[a]))

\* C24: the normalized path expectation of a node is sum(prior_probability *
\* score) / sum(prior_probability) over its root path without the root, a
\* pause node adding nothing to the numerator and its prior probability to the
\* denominator; the beam keeps the min(W, number of candidates) candidates of
\* highest expectation across all branches, pauses competing for the slots.
C24_ExpectationCountsPauses ==
    [][/\ search'.phase \in {"level", "items", "backward", "returned", "raised"} =>
              \A n \in Subtree(search'.nodes, 1) \ {1} :
                  SameValue(ComputeNormalizedExpectation(search'.nodes, n, 1),
                            ExpectationCountingPauses(search'.nodes, n))
       /\ SelectionStep => BeamKeepsBest]_vars

\* what the code computes: pause nodes are left out of both sums, and the
\* beam selection is as stated
ExpectationSkipsPauses ==
    [][/\ search'.phase \in {"level", "items", "backward", "returned", "raised"} =>
              \A n \in Subtree(search'.nodes, 1) \ {1} :
                  SameValue(ComputeNormalizedExpectation(search'.nodes, n, 1),
                            ExpectationOfItems(search'.nodes, n))
       /\ SelectionStep => BeamKeepsBest]_vars


----------------------------------------------------------------------------
(* C25: termination of search() *)

InForwardOrBackward == search.phase \in {"level", "items", "backward"}

\* every children list holds nodes created after the father that name it as
\* their father, so a walk down the tree ends at a node without children
ChildrenAreLater(nodes) ==
    \A n \in 1..Len(nodes) :
        \A k \in 1..Len(nodes[n].childs) :
            /\ nodes[n].childs[k] > n
            /\ nodes[n].childs[k] <= Len(nodes)
            /\ nodes[nodes[n].childs[k]].father = n

SearchBounded ==
    Searching =>
        LET branching == Len(snapshots[Agent].memory_bank) + 1
        IN  /\ search.depth <= search.max_depth
            /\ Len(search.leaves) <= Max(1, search.width)
            /\ Len(search.next_level_candidates) <= search.width * branching
            /\ Len(search.nodes) <= 1 + search.max_depth * search.width * branching
            /\ ChildrenAreLater(search.nodes)

\* C25: search() terminates for every memory bank, depth D >= 0 and width
\* W >= 1: forward construction runs at most D levels with at most
\* W * (|items| + 1) new nodes in each, and the backward recursion ends at a
\* leaf on every path.
C25_SearchTerminates ==
    /\ []SearchBounded
    /\ InForwardOrBackward ~> SearchReturned

\* a search of full depth and width over two items has returned
C25_Witness ==
    /\ SearchReturned
    /\ search.max_depth = SearchDepth /\ search.depth = SearchDepth
    /\ search.width = SearchWidth
    /\ Len(search.nodes) > 1 + 2 * (Len(snapshots[Agent].memory_bank) + 1)
    /\ Len(snapshots[Agent].memory_bank) = 2


----------------------------------------------------------------------------
(* C26: what the search can return *)

Zero == [num |-> 0, den |-> 1]

\* C26: search() returns an element of the item list it was given, or no
\* candidate with score 0 when no retained node has an expectation above 0;
\* with an empty memory bank it returns no candidate and propose_item passes;
\* a proposal of the agent is never one the Engine discards as not owned.
C26_ReturnsOwnItemOrNone ==
    LET items == snapshots[Agent].memory_bank
    IN  /\ SearchReturned =>
               IF search.best_item = NoneItem
               THEN /\ SameValue(search.score, Zero)
                    /\ \A n \in Subtree(search.nodes, 1) : ~ Greater(Expectation(n), Zero)
               ELSE /\ InTuple(search.best_item, items)
                    /\ Greater(search.score, Zero)
        /\ SearchReturned /\ items = <<>> => search.best_item = NoneItem
        /\ search.phase = "returned" =>
               /\ items = <<>> => search.proposal = NoneItem
               /\ search.proposal # NoneItem =>
                      /\ ItemInMemoryBank(snapshots[Agent], search.proposal)
                      /\ Agent \in DOMAIN GetProposals(snapshots,
                                                     [p \in Players |->
                                                         IF p = Agent THEN search.proposal
                                                         ELSE NoneItem])

\* the agent proposes an item of its memory bank that a search of depth 2
\* found over a history with a spoken item
C26_Witness ==
    /\ search.phase = "returned"
    /\ search.proposal # NoneItem
    /\ search.max_depth >= 2
    /\ SpokenItemIn(history)

\* the search over an empty memory bank has returned and the agent passes
EmptyBankPasses ==
    /\ search.phase = "returned"
    /\ snapshots[Agent].memory_bank = <<>>
    /\ search.max_depth >= 1
    /\ search.proposal = NoneItem


----------------------------------------------------------------------------
(* C27: contributions and history *)

\* the entries of the history that are items of player p, in order
SpokenBy(h, p) == SelectSeq(h, LAMBDA item : item # NoneItem /\ item.player_id = p)

NonPauses(h) == Cardinality({k \in 1..Len(h) : h[k] # NoneItem})

\* C27: each player's contribution list is the subsequence of the history
\* spoken by that player, the contribution counts add up to the number of
\* non-pause entries, and every non-pause entry is in the memory bank of the
\* player credited with it.
C27_ContributionsMatchHistory ==
    /\ DOMAIN player_contributions = Players
    /\ \A p \in Players : player_contributions[p] = SpokenBy(history, p)
    /\ SumSeq([p \in 1..players_count |-> Len(player_contributions[p])]) = NonPauses(history)
    /\ \A k \in 1..Len(history) :
           history[k] # NoneItem =>
               /\ history[k].player_id \in Players
               /\ ItemInMemoryBank(snapshots[history[k].player_id], history[k])
               /\ InTuple(history[k], player_contributions[history[k].player_id])
    /\ \A p \in Players : \A k \in 1..Len(player_contributions[p]) :
           ItemInMemoryBank(snapshots[p], player_contributions[p][k])

\* two players have spoken, one of them twice, with a pause in between
C27_Witness ==
    /\ Len(history) >= 4
    /\ \E p, q \in Players :
           /\ p # q
           /\ Len(player_contributions[p]) >= 2
           /\ Len(player_contributions[q]) >= 1
    /\ \E k \in 1..Len(history) : history[k] = NoneItem


----------------------------------------------------------------------------
(* C28: run() and repeated step() *)

\* the next step() would return None
StepWouldReturnNone == IsOver(turn, conversation_length, consecutive_pauses)

\* C28: from a fresh Engine run() takes a turn exactly where step() would take
\* one and returns exactly where step() would return None, with the same turn
\* results; the is_over flag of a turn result is true exactly when the next
\* step() would return None.
C28_RunIsRepeatedStep ==
    [][/\ (pc = "run" /\ turn' = turn + 1) =>
              /\ ~ StepWouldReturnNone
              /\ turn_impact' = Append(turn_impact, Recorded(result'))
       /\ (pc = "run" /\ pc' = "idle") =>
              /\ StepWouldReturnNone'
              /\ output'.history = history'
              /\ output'.turn_impact = turn_impact'
              /\ Len(turn_impact') = turn'
              /\ \A k \in 1..Len(turn_impact') :
                     /\ turn_impact'[k].turn = k
                     /\ turn_impact'[k].item = history'[k]
                     /\ turn_impact'[k].is_over <=> k = Len(turn_impact')
       /\ (result' # NoResult /\ result'.turn = turn') =>
              (result'.is_over <=> StepWouldReturnNone')]_vars

\* run() on a fresh Engine has returned through the break after three pauses,
\* before the conversation length was reached and after an item was spoken
C28_Witness ==
    /\ last_op = "run" /\ pc = "idle"
    /\ consecutive_pauses = 3
    /\ turn < conversation_length
    /\ \E k \in 1..Len(history) : history[k] # NoneItem
    /\ output # NoOutput


----------------------------------------------------------------------------
(* C29: the per-turn impacts against the final breakdown *)

\* the entry of a turn's score impact under a key; a pause has only 'total'
ImpactOf(recorded, key) ==
    IF key \in DOMAIN recorded.score_impact THEN recorded.score_impact[key] ELSE 0

\* the sum over all turns of the impacts under a key
SumOfImpacts(impacts, key) ==
    SumSeq([k \in 1..Len(impacts) |-> ImpactOf(impacts[k], key)])

\* run() on a fresh Engine has just returned: the game is complete
GameComplete == last_op = "run" /\ pc = "idle" /\ output # NoOutput

\* C29: for a complete game the per-turn impacts for importance, freshness and
\* non-monotonousness sum to the entries of the final shared_score_breakdown;
\* coherence is the only component left out of the equality.
C29_ImpactsSumToBreakdown ==
    GameComplete =>
        /\ Len(output.turn_impact) = Len(output.history)
        /\ \A key \in {"importance", "freshness", "nonmonotonousness"} :
               SumOfImpacts(output.turn_impact, key) = output.score_breakdown[key]
        \* the final coherence only adds the entries after the item
        /\ output.score_breakdown.total - SumOfImpacts(output.turn_impact, "total")
               = 100 * (output.score_breakdown.coherence
                        - SumOfImpacts(output.turn_impact, "coherence"))

\* a complete game with a repeated item and a fresh item after a pause where
\* the coherence sums differ
C29_Witness ==
    /\ GameComplete
    /\ SumOfImpacts(output.turn_impact, "coherence") # output.score_breakdown.coherence
    /\ output.score_breakdown.importance > 0
    /\ output.score_breakdown.freshness > 0
    /\ output.score_breakdown.nonmonotonousness < 0
    /\ \E k \in 1..Len(output.history) : output.history[k] = NoneItem


----------------------------------------------------------------------------
(* C30: the retroactive coherence update of the player_3 scorer *)

\* the items a player can hold
Candidates == Proposable \ {NoneItem}

\* the positions calculate_others_coherence_score_update can index: 0..len(history)
Positions(h) == 0..Len(h)

\* C30: calculate_others_coherence_score_update returns 0 for every history,
\* position and item, so the coherence term of calculate_shared_score is
\* calculate_coherence_score of the candidate alone.
C30_OthersUpdateIsZero ==
    \A item \in Candidates :
        /\ \A position \in Positions(history) :
               ScorerOthersCoherenceScoreUpdate(item, position, history) = 0
        /\ ~ ScorerIsRepeated(item, history) =>
               ScorerSharedComponents(item, history).coherence
                   = ScorerCoherenceScore(item, Len(history), history)

\* a candidate whose append changes the Engine's final coherence of one of the
\* last three entries, and whose own coherence score is not zero
C30_Witness ==
    \E item \in Candidates :
        /\ ~ ScorerIsRepeated(item, history)
        /\ ScorerCoherenceScore(item, Len(history), history) # 0
        /\ \E i \in Max(0, Len(history) - 3)..(Len(history) - 1) :
               /\ At(history, i) # NoneItem
               /\ CalculateCoherenceScore(Append(history, item), i, At(history, i))
                      # CalculateCoherenceScore(history, i, At(history, i))

====
